---- MODULE Spec2Model ----
(***************************************************************************)
(* Model of menpo/shape/graph.py: Graph, UndirectedGraph, DirectedGraph,   *)
(* Tree and the point-graph classes built on them.                         *)
(*                                                                         *)
(* Conventions.  A numpy (n_edges, 2) array is a sequence of rows, a row a *)
(* sequence of integers.  A Python list is a sequence; the list of vertex  *)
(* v is at index v + 1.  Python's None is the empty tuple None and a       *)
(* present value x is the one-element tuple Some(x).  The outcome of a     *)
(* call is a record: status "ok" with the returned value, or the name of   *)
(* the exception that the call raises.                                     *)
(***************************************************************************)
EXTENDS Integers, Sequences, FiniteSets, TLC

VARIABLES input, pc, obj, ret

vars == <<input, pc, obj, ret>>

(***************************************************************************)
(* Bounds of the checked instances.                                        *)
(***************************************************************************)
\* An input edge array of size s has n rows over the vertex indices 0..m
\* with n + m <= s.  One size per specification.
PathSize == 5
GraphSize == 6
TreeSize == 5
QuerySize == 4
MaskSize == 4
MstSize == 4
ConstructSize == 4
CycleSize == 5

None == <<>>
Some(x) == <<x>>

Ok(v) == [status |-> "ok", val |-> v]
Raise(e) == [status |-> e, val |-> None]

Range(s) == {s[i] : i \in 1..Len(s)}

\* all sequences over S of length lo..hi
SeqsOf(S, lo, hi) == UNION {[1..n -> S] : n \in lo..hi}

Pairs(lo, hi) == {<<a, b>> : a \in lo..hi, b \in lo..hi}

(***************************************************************************)
(* numpy reductions over an edge array                                     *)
(***************************************************************************)
Entries(array) == {array[i][j] : i \in 1..Len(array), j \in 1..2}

ArrayMax(array) == CHOOSE m \in Entries(array) : \A x \in Entries(array) : x <= m

ArrayMin(array) == CHOOSE m \in Entries(array) : \A x \in Entries(array) : m <= x

\* mutant: the last occurrence of every distinct row is kept
RECURSIVE KeepFirst_Last(_, _)
KeepFirst_Last(array, i) ==
    IF i > Len(array) THEN <<>>
    ELSE IF \E j \in (i + 1)..Len(array) : array[j] = array[i]
         THEN KeepFirst_Last(array, i + 1)
         ELSE <<array[i]>> \o KeepFirst_Last(array, i + 1)

\* _unique_array_rows: np.unique(..., return_index=True) gives the index of
\* the first occurrence of every distinct row; the rows at the sorted
\* indices are returned.
RECURSIVE KeepFirst(_, _)
KeepFirst(array, i) ==
    IF i > Len(array) THEN <<>>
    ELSE IF \E j \in 1..(i - 1) : array[j] = array[i]
         THEN KeepFirst(array, i + 1)
         ELSE <<array[i]>> \o KeepFirst(array, i + 1)

_unique_array_rows(array) == KeepFirst(array, 1)

n_edges(adjacency_array) == Len(adjacency_array)

n_vertices(adjacency_array) == ArrayMax(adjacency_array) + 1

(***************************************************************************)
(* Python list indexing: list[i].  A negative index counts from the end.   *)
(***************************************************************************)
ListGet(list, i) ==
    IF 0 <= i /\ i < Len(list) THEN Ok(list[i + 1])
    ELSE IF i < 0 /\ -i <= Len(list) THEN Ok(list[Len(list) + i + 1])
    ELSE Raise("IndexError")

(***************************************************************************)
(* _get_adjacency_list                                                     *)
(***************************************************************************)
RECURSIVE AppendEdges(_, _, _, _)
AppendEdges(adjacency_array, e, undirected, adjacency_list) ==
    IF e > Len(adjacency_array) THEN adjacency_list
    ELSE LET v1 == adjacency_array[e][1]
             v2 == adjacency_array[e][2]
             l1 == [adjacency_list EXCEPT ![v1 + 1] = Append(@, v2)]
             l2 == IF undirected THEN [l1 EXCEPT ![v2 + 1] = Append(@, v1)]
                   ELSE l1
         IN AppendEdges(adjacency_array, e + 1, undirected, l2)

\* mutant: an edge is entered in the list of its first vertex only
UndirectedAdjacencyList_OneWay(adjacency_array) ==
    AppendEdges(adjacency_array, 1, FALSE,
                [v \in 1..n_vertices(adjacency_array) |-> <<>>])

UndirectedAdjacencyList(adjacency_array) ==
    AppendEdges(adjacency_array, 1, TRUE,
                [v \in 1..n_vertices(adjacency_array) |-> <<>>])

DirectedAdjacencyList(adjacency_array) ==
    AppendEdges(adjacency_array, 1, FALSE,
                [v \in 1..n_vertices(adjacency_array) |-> <<>>])

IsUndirected(cls) == cls \in {"UndirectedGraph", "PointUndirectedGraph"}

IsTreeClass(cls) == cls \in {"Tree", "PointTree"}

_get_adjacency_list(cls, adjacency_array) ==
    IF IsUndirected(cls) THEN UndirectedAdjacencyList(adjacency_array)
    ELSE DirectedAdjacencyList(adjacency_array)

(***************************************************************************)
(* _has_cycles: the depth-first search, its sets and dictionaries threaded *)
(* through the recursion as the record st.                                 *)
(***************************************************************************)
DictGet(dict, key) == IF key \in DOMAIN dict THEN Some(dict[key]) ELSE None

DictSet(dict, key, value) ==
    [k \in (DOMAIN dict) \cup {key} |-> IF k = key THEN value ELSE dict[k]]

EmptyDict == [k \in {} |-> 0]

RECURSIVE dfs(_, _, _, _), dfs_loop(_, _, _, _, _)
\* mutant: in an undirected graph the edge back to the vertex that
\* discovered the current one counts as a back edge too
dfs_loop_NoParentTest(adjacency_list, directed, node, i, st) ==
    IF i > Len(adjacency_list[node + 1]) THEN st
    ELSE LET y == adjacency_list[node + 1][i]
             s1 == IF y \notin st.entered
                   THEN [st EXCEPT !.tree_edges = DictSet(@, y, node)]
                   ELSE IF ~directed \/ (directed /\ y \notin st.exited)
                        THEN [st EXCEPT !.back_edges =
                                 DictSet(@, y,
                                     (IF y \in DOMAIN @ THEN @[y] ELSE {})
                                         \cup {node})]
                        ELSE st
         IN dfs_loop(adjacency_list, directed, node, i + 1,
                     dfs(adjacency_list, directed, y, s1))

dfs(adjacency_list, directed, node, st) ==
    IF node \in st.entered THEN st
    ELSE LET s1 == [st EXCEPT !.entered = @ \cup {node}]
             s2 == dfs_loop(adjacency_list, directed, node, 1, s1)
         IN [s2 EXCEPT !.exited = @ \cup {node}]

dfs_loop(adjacency_list, directed, node, i, st) ==
    IF i > Len(adjacency_list[node + 1]) THEN st
    ELSE LET y == adjacency_list[node + 1][i]
             s1 == IF y \notin st.entered
                   THEN [st EXCEPT !.tree_edges = DictSet(@, y, node)]
                   ELSE IF (~directed /\ DictGet(st.tree_edges, node) # Some(y))
                           \/ (directed /\ y \notin st.exited)
                        THEN [st EXCEPT !.back_edges =
                                 DictSet(@, y,
                                     (IF y \in DOMAIN @ THEN @[y] ELSE {})
                                         \cup {node})]
                        ELSE st
         IN dfs_loop(adjacency_list, directed, node, i + 1,
                     dfs(adjacency_list, directed, y, s1))

DfsStart ==
    [entered |-> {}, exited |-> {}, tree_edges |-> EmptyDict,
     back_edges |-> EmptyDict]

_has_cycles(adjacency_list, directed) ==
    \E x \in 0..(Len(adjacency_list) - 1) :
        DOMAIN (dfs(adjacency_list, directed, x, DfsStart).back_edges) # {}

has_cycles(g) == _has_cycles(g.adjacency_list, ~IsUndirected(g.cls))

is_tree(g) ==
    ~has_cycles(g) /\ n_edges(g.adjacency_array) = n_vertices(g.adjacency_array) - 1

(***************************************************************************)
(* Graph._check_vertex                                                     *)
(***************************************************************************)
\* mutant: the lower bound is not tested
_check_vertex_UpperOnly(g, vertex) ==
    IF vertex > n_vertices(g.adjacency_array) - 1
    THEN Raise("ValueError")
    ELSE Ok(None)

_check_vertex(g, vertex) ==
    IF vertex > n_vertices(g.adjacency_array) - 1 \/ vertex < 0
    THEN Raise("ValueError")
    ELSE Ok(None)

(***************************************************************************)
(* Path search: Graph.find_path, find_all_paths, n_paths and               *)
(* find_shortest_path.  `if newpath:` is Python truth: None and the empty  *)
(* list are false.                                                         *)
(***************************************************************************)
Truthy(opt) == opt # None /\ opt[1] # <<>>

OutOfRange(g, v) == v > n_vertices(g.adjacency_array) - 1 \/ v < 0

RECURSIVE find_path(_, _, _, _), find_path_loop(_, _, _, _, _)

\* mutant: the range test is made before the test start == end
find_path_RangeFirst(g, start, end, path) ==
    LET path1 == path \o <<start>>
    IN IF OutOfRange(g, start) THEN None
       ELSE IF start = end THEN Some(path1)
       ELSE find_path_loop(g, start, end, path1, 1)

\* mutant: the search returns what the first untried neighbour gives,
\* found or not
find_path_loop_FirstNeighbour(g, start, end, path, i) ==
    IF i > Len(g.adjacency_list[start + 1]) THEN None
    ELSE LET v == g.adjacency_list[start + 1][i]
         IN IF v \notin Range(path)
            THEN find_path(g, v, end, path)
            ELSE find_path_loop(g, start, end, path, i + 1)

find_path(g, start, end, path) ==
    LET path1 == path \o <<start>>
    IN IF start = end THEN Some(path1)
       ELSE IF OutOfRange(g, start) THEN None
       ELSE find_path_loop(g, start, end, path1, 1)

find_path_loop(g, start, end, path, i) ==
    IF i > Len(g.adjacency_list[start + 1]) THEN None
    ELSE LET v == g.adjacency_list[start + 1][i]
         IN IF v \notin Range(path)
            THEN LET newpath == find_path(g, v, end, path)
                 IN IF Truthy(newpath) THEN newpath
                    ELSE find_path_loop(g, start, end, path, i + 1)
            ELSE find_path_loop(g, start, end, path, i + 1)

RECURSIVE find_all_paths(_, _, _, _), find_all_paths_loop(_, _, _, _, _, _)
\* mutant: the search ends with the first neighbour that gives a path
find_all_paths_loop_FirstBranch(g, start, end, path, i, paths) ==
    IF i > Len(g.adjacency_list[start + 1]) \/ Len(paths) > 0 THEN paths
    ELSE LET v == g.adjacency_list[start + 1][i]
         IN IF v \notin Range(path)
            THEN find_all_paths_loop(g, start, end, path, i + 1,
                     paths \o find_all_paths(g, v, end, path))
            ELSE find_all_paths_loop(g, start, end, path, i + 1, paths)

find_all_paths(g, start, end, path) ==
    LET path1 == path \o <<start>>
    IN IF start = end THEN <<path1>>
       ELSE IF OutOfRange(g, start) THEN <<>>
       ELSE find_all_paths_loop(g, start, end, path1, 1, <<>>)

find_all_paths_loop(g, start, end, path, i, paths) ==
    IF i > Len(g.adjacency_list[start + 1]) THEN paths
    ELSE LET v == g.adjacency_list[start + 1][i]
         IN IF v \notin Range(path)
            THEN find_all_paths_loop(g, start, end, path, i + 1,
                     paths \o find_all_paths(g, v, end, path))
            ELSE find_all_paths_loop(g, start, end, path, i + 1, paths)

n_paths(g, start, end) == Len(find_all_paths(g, start, end, <<>>))

RECURSIVE find_shortest_path(_, _, _, _), find_shortest_path_loop(_, _, _, _, _, _)

\* mutant: the first path found is kept, the lengths are not compared
find_shortest_path_loop_KeepFirst(g, start, end, path, i, shortest) ==
    IF i > Len(g.adjacency_list[start + 1]) THEN shortest
    ELSE LET v == g.adjacency_list[start + 1][i]
         IN IF v \notin Range(path)
            THEN LET newpath == find_shortest_path(g, v, end, path)
                     s1 == IF Truthy(newpath) /\ ~Truthy(shortest)
                           THEN newpath
                           ELSE shortest
                 IN find_shortest_path_loop(g, start, end, path, i + 1, s1)
            ELSE find_shortest_path_loop(g, start, end, path, i + 1, shortest)

find_shortest_path(g, start, end, path) ==
    LET path1 == path \o <<start>>
    IN IF start = end THEN Some(path1)
       ELSE IF OutOfRange(g, start) THEN None
       ELSE find_shortest_path_loop(g, start, end, path1, 1, None)

find_shortest_path_loop(g, start, end, path, i, shortest) ==
    IF i > Len(g.adjacency_list[start + 1]) THEN shortest
    ELSE LET v == g.adjacency_list[start + 1][i]
         IN IF v \notin Range(path)
            THEN LET newpath == find_shortest_path(g, v, end, path)
                     s1 == IF Truthy(newpath)
                              /\ (~Truthy(shortest)
                                  \/ Len(newpath[1]) < Len(shortest[1]))
                           THEN newpath
                           ELSE shortest
                 IN find_shortest_path_loop(g, start, end, path, i + 1, s1)
            ELSE find_shortest_path_loop(g, start, end, path, i + 1, shortest)

(***************************************************************************)
(* Per-vertex queries.  Each gives the outcome and the number of index     *)
(* lookups made up to the return or the raise.                             *)
(***************************************************************************)
Looked(outcome, n) ==
    [status |-> outcome.status, val |-> outcome.val, lookups |-> n]

\* UndirectedGraph.neighbours and DirectedGraph.children
neighbours(g, vertex) ==
    LET checked == _check_vertex(g, vertex)
    IN IF checked.status # "ok" THEN Looked(checked, 0)
       ELSE Looked(ListGet(g.adjacency_list, vertex), 1)

children(g, vertex) == neighbours(g, vertex)

\* UndirectedGraph.n_neighbours and DirectedGraph.n_children
n_neighbours(g, vertex) ==
    LET checked == _check_vertex(g, vertex)
        list == neighbours(g, vertex)
    IN IF checked.status # "ok" THEN Looked(checked, 0)
       ELSE IF list.status # "ok" THEN list
       ELSE Looked(Ok(Len(list.val)), list.lookups)

n_children(g, vertex) == n_neighbours(g, vertex)

\* `x in list[i]`
Contains(list, i, x) ==
    LET got == ListGet(list, i)
    IN IF got.status # "ok" THEN got ELSE Ok(x \in Range(got.val))

\* UndirectedGraph.is_edge: `or` looks at its second operand only when the
\* first is false
UndirectedIsEdge(g, vertex_1, vertex_2) ==
    LET check1 == _check_vertex(g, vertex_1)
        check2 == _check_vertex(g, vertex_2)
        first == Contains(g.adjacency_list, vertex_2, vertex_1)
        second == Contains(g.adjacency_list, vertex_1, vertex_2)
    IN IF check1.status # "ok" THEN Looked(check1, 0)
       ELSE IF check2.status # "ok" THEN Looked(check2, 0)
       ELSE IF first.status # "ok" \/ first.val THEN Looked(first, 1)
       ELSE Looked(second, 2)

\* DirectedGraph.is_edge
DirectedIsEdge(g, father, child) ==
    LET check1 == _check_vertex(g, father)
        check2 == _check_vertex(g, child)
    IN IF check1.status # "ok" THEN Looked(check1, 0)
       ELSE IF check2.status # "ok" THEN Looked(check2, 0)
       ELSE Looked(Contains(g.adjacency_list, father, child), 1)

is_edge(g, vertex_1, vertex_2) ==
    IF IsUndirected(g.cls) THEN UndirectedIsEdge(g, vertex_1, vertex_2)
    ELSE DirectedIsEdge(g, vertex_1, vertex_2)

\* DirectedGraph.get_adjacency_matrix, as the set of its True cells
get_adjacency_matrix(g) ==
    {<<g.adjacency_array[e][1], g.adjacency_array[e][2]>> :
        e \in 1..Len(g.adjacency_array)}

\* the ascending sequence of the elements of a finite set of integers
RECURSIVE Sorted(_)
Sorted(S) ==
    IF S = {} THEN <<>>
    ELSE LET least == CHOOSE x \in S : \A y \in S : x <= y
         IN <<least>> \o Sorted(S \ {least})

\* DirectedGraph.parent: list(np.where(adj[:, vertex])[0]); the column
\* index of a numpy array counts from the end when negative
DirectedParent(g, vertex) ==
    LET checked == _check_vertex(g, vertex)
        n == n_vertices(g.adjacency_array)
        column == IF 0 <= vertex /\ vertex < n THEN Ok(vertex)
                  ELSE IF vertex < 0 /\ -vertex <= n THEN Ok(n + vertex)
                  ELSE Raise("IndexError")
    IN IF checked.status # "ok" THEN Looked(checked, 0)
       ELSE IF column.status # "ok" THEN Looked(column, 1)
       ELSE Looked(Ok(Sorted({p \in 0..(n - 1) :
                                <<p, column.val>> \in get_adjacency_matrix(g)})),
                   1)

\* Tree.parent
TreeParent(g, vertex) ==
    LET checked == _check_vertex(g, vertex)
    IN IF checked.status # "ok" THEN Looked(checked, 0)
       ELSE Looked(ListGet(g.predecessors_list, vertex), 1)

parent(g, vertex) ==
    IF IsTreeClass(g.cls) THEN TreeParent(g, vertex)
    ELSE DirectedParent(g, vertex)

\* DirectedGraph.n_parent: len(self.parent(vertex)).  In a Tree,
\* self.parent is Tree.parent, which returns an integer or None, and len of
\* either raises TypeError.
n_parent(g, vertex) ==
    LET checked == _check_vertex(g, vertex)
        got == parent(g, vertex)
    IN IF checked.status # "ok" THEN Looked(checked, 0)
       ELSE IF got.status # "ok" THEN got
       ELSE IF IsTreeClass(g.cls) THEN Looked(Raise("TypeError"), got.lookups)
       ELSE Looked(Ok(Len(got.val)), got.lookups)

\* Tree.is_leaf
is_leaf(g, vertex) ==
    LET checked == _check_vertex(g, vertex)
        list == children(g, vertex)
    IN IF checked.status # "ok" THEN Looked(checked, 0)
       ELSE IF list.status # "ok" THEN list
       ELSE Looked(Ok(Len(list.val) = 0), list.lookups)

\* Tree.depth_of_vertex: the while loop.  current is Some(vertex) or None;
\* indexing the predecessor list with None raises TypeError.  A walk of
\* more steps than the list has entries has come back to a vertex and goes
\* on for ever: status "NoReturn".
RECURSIVE depth_walk(_, _, _)
depth_walk(g, current, depth) ==
    IF current = g.root_vertex THEN Looked(Ok(depth), depth)
    ELSE IF current = None THEN Looked(Raise("TypeError"), depth)
    ELSE IF depth > Len(g.predecessors_list) THEN Looked(Raise("NoReturn"), depth)
    ELSE LET got == ListGet(g.predecessors_list, current[1])
         IN IF got.status # "ok" THEN Looked(got, depth + 1)
            ELSE depth_walk(g, got.val, depth + 1)

depth_of_vertex(g, vertex) ==
    LET checked == _check_vertex(g, vertex)
    IN IF checked.status # "ok" THEN Looked(checked, 0)
       ELSE depth_walk(g, Some(vertex), 0)

(***************************************************************************)
(* Construction: Graph.__init__, Tree.__init__, the point-graph classes    *)
(***************************************************************************)
NoObject == [cls |-> "NoObject", adjacency_array |-> <<>>,
             adjacency_list |-> <<>>, root_vertex |-> None,
             predecessors_list |-> <<>>, points |-> <<>>]

\* adjacency_array.size: rows times columns
ArraySize(array) == IF Len(array) = 0 THEN 0 ELSE Len(array) * Len(array[1])

\* mutant: the numbering from 0 is not tested
GraphInit_AnyMinimum(cls, adjacency_array) ==
    IF ArraySize(adjacency_array) = 0 THEN Raise("ValueError")
    ELSE IF Len(adjacency_array[1]) # 2 THEN Raise("ValueError")
    ELSE LET unique == _unique_array_rows(adjacency_array)
         IN Ok([NoObject EXCEPT !.cls = cls,
                                !.adjacency_array = unique,
                                !.adjacency_list =
                                    _get_adjacency_list(cls, unique)])

GraphInit(cls, adjacency_array) ==
    IF ArraySize(adjacency_array) = 0 THEN Raise("ValueError")
    ELSE IF Len(adjacency_array[1]) # 2 THEN Raise("ValueError")
    ELSE IF ArrayMin(adjacency_array) # 0 THEN Raise("ValueError")
    ELSE LET unique == _unique_array_rows(adjacency_array)
         IN Ok([NoObject EXCEPT !.cls = cls,
                                !.adjacency_array = unique,
                                !.adjacency_list =
                                    _get_adjacency_list(cls, unique)])

\* Tree._get_predecessors_list: the last edge into a child sets its entry
RECURSIVE SetPredecessors(_, _, _)
SetPredecessors(adjacency_array, e, predecessors_list) ==
    IF e > Len(adjacency_array) THEN predecessors_list
    ELSE LET father == adjacency_array[e][1]
             child == adjacency_array[e][2]
         IN SetPredecessors(adjacency_array, e + 1,
                [predecessors_list EXCEPT ![child + 1] = Some(father)])

_get_predecessors_list(adjacency_array) ==
    SetPredecessors(adjacency_array, 1,
                    [v \in 1..n_vertices(adjacency_array) |-> None])

TreeInit(cls, adjacency_array, root_vertex) ==
    LET super == GraphInit(cls, adjacency_array)
        g == super.val
    IN IF super.status # "ok" THEN super
       ELSE IF ~(is_tree(g)
                 /\ n_edges(g.adjacency_array) = n_vertices(g.adjacency_array) - 1)
       THEN Raise("ValueError")
       ELSE IF _check_vertex(g, root_vertex).status # "ok"
       THEN Raise("ValueError")
       ELSE Ok([g EXCEPT !.root_vertex = Some(root_vertex),
                         !.predecessors_list =
                             _get_predecessors_list(g.adjacency_array)])

\* _check_n_points; numpy's max of an empty array raises ValueError as well
_check_n_points(points, adjacency_array) ==
    IF Len(adjacency_array) = 0 THEN Raise("ValueError")
    ELSE IF Len(points) # ArrayMax(adjacency_array) + 1 THEN Raise("ValueError")
    ELSE Ok(None)

IsPointClass(cls) == cls \in {"PointUndirectedGraph", "PointTree"}

New(in) ==
    LET checked == IF IsPointClass(in.cls)
                   THEN _check_n_points(in.points, in.adjacency_array)
                   ELSE Ok(None)
        built == IF IsTreeClass(in.cls)
                 THEN TreeInit(in.cls, in.adjacency_array, in.root_vertex)
                 ELSE GraphInit(in.cls, in.adjacency_array)
    IN IF checked.status # "ok" THEN checked
       ELSE IF built.status # "ok" THEN built
       ELSE IF IsPointClass(in.cls)
       THEN Ok([built.val EXCEPT !.points = in.points])
       ELSE built

(***************************************************************************)
(* The collaborators of from_mask, which are not in graph.py: the          *)
(* point-cloud copy and the helpers of menpo.shape.adjacency, as the       *)
(* specification describes them.                                           *)
(***************************************************************************)
\* self.copy(): a new instance with the same fields
Copy(self) == self

\* mask[v], false beyond the mask
Kept(mask, v) == 0 <= v /\ v < Len(mask) /\ mask[v + 1]

\* mask_adjacency_array: the rows whose two vertices are kept
RECURSIVE MaskRows(_, _, _)
MaskRows(mask, adjacency_array, e) ==
    IF e > Len(adjacency_array) THEN <<>>
    ELSE IF Kept(mask, adjacency_array[e][1]) /\ Kept(mask, adjacency_array[e][2])
         THEN <<adjacency_array[e]>> \o MaskRows(mask, adjacency_array, e + 1)
         ELSE MaskRows(mask, adjacency_array, e + 1)

mask_adjacency_array(mask, adjacency_array) == MaskRows(mask, adjacency_array, 1)

\* the nearest kept vertex among v and its predecessors; fuel bounds the
\* walk by the length of the predecessor list
RECURSIVE NearestKept(_, _, _, _)
NearestKept(mask, predecessors_list, v, fuel) ==
    IF v = None \/ fuel = 0 THEN None
    ELSE IF Kept(mask, v[1]) THEN v
    ELSE IF v[1] < 0 \/ v[1] >= Len(predecessors_list) THEN None
    ELSE NearestKept(mask, predecessors_list, predecessors_list[v[1] + 1],
                     fuel - 1)

\* mask_adjacency_array_tree: every row into a kept child, its parent
\* replaced by the child's nearest kept ancestor; the row is dropped when
\* the child has none
RECURSIVE MaskTreeRows(_, _, _, _)
MaskTreeRows(mask, adjacency_array, predecessors_list, e) ==
    IF e > Len(adjacency_array) THEN <<>>
    ELSE LET child == adjacency_array[e][2]
             ancestor == NearestKept(mask, predecessors_list,
                                     Some(adjacency_array[e][1]),
                                     Len(predecessors_list) + 1)
             rest == MaskTreeRows(mask, adjacency_array, predecessors_list, e + 1)
         IN IF Kept(mask, child) /\ ancestor # None
            THEN <<(<<ancestor[1], child>>)>> \o rest
            ELSE rest

mask_adjacency_array_tree(mask, adjacency_array, adjacency_list, predecessors_list, root_vertex) ==
    MaskTreeRows(mask, adjacency_array, predecessors_list, 1)

\* reindex_adjacency_array: every vertex index replaced by its rank among
\* the indices that occur in the array
reindex_adjacency_array(adjacency_array) ==
    LET rank(v) == Cardinality({u \in Entries(adjacency_array) : u < v})
    IN [e \in 1..Len(adjacency_array) |->
           <<rank(adjacency_array[e][1]), rank(adjacency_array[e][2])>>]

\* points[mask, :]
RECURSIVE SelectPoints(_, _, _)
SelectPoints(points, mask, i) ==
    IF i > Len(points) THEN <<>>
    ELSE IF mask[i] THEN <<points[i]>> \o SelectPoints(points, mask, i + 1)
         ELSE SelectPoints(points, mask, i + 1)

(***************************************************************************)
(* PointUndirectedGraph.from_mask and PointTree.from_mask.  The outcome    *)
(* carries the receiver as the call leaves it.                             *)
(***************************************************************************)
Left(outcome, self) ==
    [status |-> outcome.status, val |-> outcome.val, self |-> self]

n_points(self) == Len(self.points)

AllTrue(mask) == \A i \in 1..Len(mask) : mask[i]

\* mutant: no shortcut for the all-true mask, which goes through the mask
\* helper and the renumbering like any other
Masked_NoShortcut(self, mask) ==
    LET pg == Copy(self)
        masked_adj ==
            IF IsTreeClass(pg.cls)
            THEN mask_adjacency_array_tree(mask, pg.adjacency_array,
                     pg.adjacency_list, pg.predecessors_list, pg.root_vertex)
            ELSE mask_adjacency_array(mask, pg.adjacency_array)
        reindexed == reindex_adjacency_array(masked_adj)
        pg1 == [pg EXCEPT !.adjacency_array = reindexed]
        pg2 == [pg1 EXCEPT !.adjacency_list =
                              _get_adjacency_list(pg.cls, reindexed)]
        pg3 == [pg2 EXCEPT !.points = SelectPoints(pg.points, mask, 1)]
        pt == [pg3 EXCEPT !.predecessors_list =
                             _get_predecessors_list(reindexed)]
    IN IF Len(masked_adj) = 0 THEN Left(Raise("ValueError"), self)
       ELSE IF Len(mask) # Len(pg.points) THEN Left(Raise("IndexError"), self)
       ELSE IF IsTreeClass(pg.cls) THEN Left(Ok(pt), self)
       ELSE Left(Ok(pg3), self)

\* the lines after the test of the mask's length; a boolean index of
\* another length than the points raises IndexError
Masked(self, mask) ==
    LET pg == Copy(self)
        masked_adj ==
            IF IsTreeClass(pg.cls)
            THEN mask_adjacency_array_tree(mask, pg.adjacency_array,
                     pg.adjacency_list, pg.predecessors_list, pg.root_vertex)
            ELSE mask_adjacency_array(mask, pg.adjacency_array)
        reindexed == reindex_adjacency_array(masked_adj)
        pg1 == [pg EXCEPT !.adjacency_array = reindexed]
        pg2 == [pg1 EXCEPT !.adjacency_list =
                              _get_adjacency_list(pg.cls, reindexed)]
        pg3 == [pg2 EXCEPT !.points = SelectPoints(pg.points, mask, 1)]
        pt == [pg3 EXCEPT !.predecessors_list =
                             _get_predecessors_list(reindexed)]
    IN IF AllTrue(mask) THEN Left(Ok(pg), self)
       ELSE IF Len(masked_adj) = 0 THEN Left(Raise("ValueError"), self)
       ELSE IF Len(mask) # Len(pg.points) THEN Left(Raise("IndexError"), self)
       ELSE IF IsTreeClass(pg.cls) THEN Left(Ok(pt), self)
       ELSE Left(Ok(pg3), self)

\* mutant: the length of the mask is not tested
from_mask_NoLengthTest(self, mask) == Masked(self, mask)

from_mask(self, mask) ==
    IF Len(mask) # n_points(self) THEN Left(Raise("ValueError"), self)
    ELSE Masked(self, mask)

(***************************************************************************)
(* UndirectedGraph.minimum_spanning_tree.  The solver                      *)
(* (menpo.external.PADS.MinimumSpanningTree) is not in graph.py; as the    *)
(* specification describes it, it returns an unordered set of vertex pairs *)
(* that span the graph's own topology: here any spanning forest of the     *)
(* graph's connections, its pairs in any order and either orientation.     *)
(* The weights decide which one; they are not modelled apart from that.    *)
(***************************************************************************)
\* the connections of the graph: the two ends of every row that is not a
\* self-loop
Connections(g) ==
    {{g.adjacency_array[e][1], g.adjacency_array[e][2]} :
        e \in {f \in 1..Len(g.adjacency_array) :
                  g.adjacency_array[f][1] # g.adjacency_array[f][2]}}

RECURSIVE Component(_, _)
Component(F, S) ==
    LET T == S \cup UNION {c \in F : c \cap S # {}}
    IN IF T = S THEN S ELSE Component(F, T)

Components(g, F) ==
    {Component(F, {v}) : v \in 0..(n_vertices(g.adjacency_array) - 1)}

SpanningForests(g) ==
    {F \in SUBSET Connections(g) :
        /\ Components(g, F) = Components(g, Connections(g))
        /\ Cardinality(F) =
              n_vertices(g.adjacency_array) - Cardinality(Components(g, F))}

MinimumSpanningTree(g) ==
    UNION {{s \in [1..Cardinality(F) ->
                     {p \in (UNION F) \X (UNION F) : {p[1], p[2]} \in F}] :
               {{s[i][1], s[i][2]} : i \in DOMAIN s} = F} :
           F \in SpanningForests(g)}

\* mutant: the pairs are taken as the solver oriented them
_get_children_Second(p, e) == [i \in 1..Len(e) |-> e[i][2]]

\* _correct_tree_edges._get_children: m.index(p) is the first position of p
_get_children(p, e) ==
    [i \in 1..Len(e) |-> IF e[i][1] = p THEN e[i][2] ELSE e[i][1]]

\* the while loop of _correct_tree_edges; edges.remove(e) for every edge
\* that holds the current vertex leaves the edges that do not hold it
RECURSIVE _correct_tree_edges_loop(_, _, _)
_correct_tree_edges_loop(edges, vertices_to_visit, output_edges) ==
    IF Len(vertices_to_visit) = 0 THEN output_edges
    ELSE LET current_vertex == Head(vertices_to_visit)
             current_edges ==
                 SelectSeq(edges, LAMBDA item : current_vertex \in Range(item))
             remaining ==
                 SelectSeq(edges, LAMBDA item : current_vertex \notin Range(item))
             kids == _get_children(current_vertex, current_edges)
         IN _correct_tree_edges_loop(
                remaining,
                Tail(vertices_to_visit) \o kids,
                output_edges \o
                    [i \in 1..Len(kids) |-> <<current_vertex, kids[i]>>])

_correct_tree_edges(edges, root_vertex) ==
    _correct_tree_edges_loop(edges, <<root_vertex>>, <<>>)

\* tree_edges is what the solver returned for the weights
minimum_spanning_tree(self, tree_edges, root_vertex) ==
    TreeInit("Tree", _correct_tree_edges(tree_edges, root_vertex), root_vertex)

(***************************************************************************)
(* The state machine.  input is the constructor's argument list, obj the   *)
(* constructed instance, ret the outcome of the last call.  pc is the      *)
(* caller's position: "start", then "constructed" or "raised" after the    *)
(* constructor, then "returned" after a query.  The queries read obj and   *)
(* change nothing, so a behaviour makes one of them.                       *)
(***************************************************************************)
\* lookups: for a per-vertex query, the number of index lookups into the
\* adjacency list, the predecessor list or the adjacency matrix that the
\* call made; None for the other calls, where they are not counted
NoCall == [op |-> "none", args |-> <<>>, status |-> "ok", val |-> None,
           lookups |-> None]

Call(op, args, outcome) ==
    [op |-> op, args |-> args, status |-> outcome.status, val |-> outcome.val,
     lookups |-> None]

Query(op, args, outcome) ==
    [op |-> op, args |-> args, status |-> outcome.status, val |-> outcome.val,
     lookups |-> Some(outcome.lookups)]

Arrays(size) == UNION {SeqsOf(Pairs(0, size - n), n, n) : n \in 1..size}

\* n points; point i stands for row i of the coordinate array
Points(n) == [i \in 1..n |-> i - 1]

\* the constructor arguments: a root for the tree classes and, for the
\* point classes, as many points as the array has vertices plus d, d in
\* surplus
InputsOf(cls, size, roots, surplus) ==
    UNION {{[cls |-> cls, adjacency_array |-> a, root_vertex |-> r,
             points |-> p] :
               r \in IF IsTreeClass(cls) THEN roots ELSE {None},
               p \in IF IsPointClass(cls)
                     THEN {Points(ArrayMax(a) + 1 + d) : d \in surplus}
                     ELSE {<<>>}} :
           a \in Arrays(size)}

Inputs(classes, size, roots, surplus) ==
    UNION {InputsOf(cls, size, roots, surplus) : cls \in classes}

InitWith(inputs) ==
    /\ input \in inputs
    /\ pc = "start"
    /\ obj = NoObject
    /\ ret = NoCall

Construct ==
    /\ pc = "start"
    /\ LET made == New(input)
       IN /\ pc' = IF made.status = "ok" THEN "constructed" ELSE "raised"
          /\ obj' = IF made.status = "ok" THEN made.val ELSE NoObject
          /\ ret' = Call("__init__", <<>>, [made EXCEPT !.val = None])
    /\ UNCHANGED input

V == n_vertices(obj.adjacency_array)

\* vertex arguments of a call: every valid vertex and the two nearest
\* integers outside [0, V)
VertexArgs == IF pc = "constructed" THEN (-1)..V ELSE {}

FindPath(start, end) ==
    /\ pc = "constructed"
    /\ ret' = Call("find_path", <<start, end>>,
                   Ok(find_path(obj, start, end, <<>>)))
    /\ pc' = "returned"
    /\ UNCHANGED <<input, obj>>

FindAllPaths(start, end) ==
    /\ pc = "constructed"
    /\ ret' = Call("find_all_paths", <<start, end>>,
                   Ok(find_all_paths(obj, start, end, <<>>)))
    /\ pc' = "returned"
    /\ UNCHANGED <<input, obj>>

NPaths(start, end) ==
    /\ pc = "constructed"
    /\ ret' = Call("n_paths", <<start, end>>, Ok(n_paths(obj, start, end)))
    /\ pc' = "returned"
    /\ UNCHANGED <<input, obj>>

FindShortestPath(start, end) ==
    /\ pc = "constructed"
    /\ ret' = Call("find_shortest_path", <<start, end>>,
                   Ok(find_shortest_path(obj, start, end, <<>>)))
    /\ pc' = "returned"
    /\ UNCHANGED <<input, obj>>

HasCycles ==
    /\ pc = "constructed"
    /\ ret' = Call("has_cycles", <<>>, Ok(has_cycles(obj)))
    /\ pc' = "returned"
    /\ UNCHANGED <<input, obj>>

IsTree ==
    /\ pc = "constructed"
    /\ ret' = Call("is_tree", <<>>, Ok(is_tree(obj)))
    /\ pc' = "returned"
    /\ UNCHANGED <<input, obj>>

Neighbours(vertex) ==
    /\ pc = "constructed" /\ IsUndirected(obj.cls)
    /\ ret' = Query("neighbours", <<vertex>>, neighbours(obj, vertex))
    /\ pc' = "returned"
    /\ UNCHANGED <<input, obj>>

NNeighbours(vertex) ==
    /\ pc = "constructed" /\ IsUndirected(obj.cls)
    /\ ret' = Query("n_neighbours", <<vertex>>, n_neighbours(obj, vertex))
    /\ pc' = "returned"
    /\ UNCHANGED <<input, obj>>

Children(vertex) ==
    /\ pc = "constructed" /\ ~IsUndirected(obj.cls)
    /\ ret' = Query("children", <<vertex>>, children(obj, vertex))
    /\ pc' = "returned"
    /\ UNCHANGED <<input, obj>>

NChildren(vertex) ==
    /\ pc = "constructed" /\ ~IsUndirected(obj.cls)
    /\ ret' = Query("n_children", <<vertex>>, n_children(obj, vertex))
    /\ pc' = "returned"
    /\ UNCHANGED <<input, obj>>

Parent(vertex) ==
    /\ pc = "constructed" /\ ~IsUndirected(obj.cls)
    /\ ret' = Query("parent", <<vertex>>, parent(obj, vertex))
    /\ pc' = "returned"
    /\ UNCHANGED <<input, obj>>

NParent(vertex) ==
    /\ pc = "constructed" /\ ~IsUndirected(obj.cls)
    /\ ret' = Query("n_parent", <<vertex>>, n_parent(obj, vertex))
    /\ pc' = "returned"
    /\ UNCHANGED <<input, obj>>

IsEdge(vertex_1, vertex_2) ==
    /\ pc = "constructed"
    /\ ret' = Query("is_edge", <<vertex_1, vertex_2>>,
                    is_edge(obj, vertex_1, vertex_2))
    /\ pc' = "returned"
    /\ UNCHANGED <<input, obj>>

IsLeaf(vertex) ==
    /\ pc = "constructed" /\ IsTreeClass(obj.cls)
    /\ ret' = Query("is_leaf", <<vertex>>, is_leaf(obj, vertex))
    /\ pc' = "returned"
    /\ UNCHANGED <<input, obj>>

DepthOfVertex(vertex) ==
    /\ pc = "constructed" /\ IsTreeClass(obj.cls)
    /\ ret' = Query("depth_of_vertex", <<vertex>>, depth_of_vertex(obj, vertex))
    /\ pc' = "returned"
    /\ UNCHANGED <<input, obj>>

MinimumSpanningTreeOf(tree_edges, root_vertex) ==
    /\ pc = "constructed" /\ IsUndirected(obj.cls)
    /\ ret' = Call("minimum_spanning_tree", <<tree_edges, root_vertex>>,
                   minimum_spanning_tree(obj, tree_edges, root_vertex))
    /\ pc' = "returned"
    /\ UNCHANGED <<input, obj>>

MstInit == InitWith(Inputs({"UndirectedGraph"}, MstSize, {}, {}))

MstNext ==
    \/ Construct
    \/ \E tree_edges \in IF pc = "constructed" THEN MinimumSpanningTree(obj)
                          ELSE {} :
          \E root_vertex \in VertexArgs :
             MinimumSpanningTreeOf(tree_edges, root_vertex)

SpecMst == MstInit /\ [][MstNext]_vars

\* the n_edges and n_vertices properties
NEdges ==
    /\ pc = "constructed"
    /\ ret' = Call("n_edges", <<>>, Ok(n_edges(obj.adjacency_array)))
    /\ pc' = "returned"
    /\ UNCHANGED <<input, obj>>

NVertices ==
    /\ pc = "constructed"
    /\ ret' = Call("n_vertices", <<>>, Ok(n_vertices(obj.adjacency_array)))
    /\ pc' = "returned"
    /\ UNCHANGED <<input, obj>>

\* the constructor called on the stored edge array of obj
ConstructAgain ==
    /\ pc = "constructed"
    /\ ret' = Call("__init__", <<obj.adjacency_array>>,
                   New([input EXCEPT !.adjacency_array = obj.adjacency_array]))
    /\ pc' = "returned"
    /\ UNCHANGED <<input, obj>>

\* the edge arrays given to the constructor: n rows of two columns over
\* the integers -1..m with n + m <= size, the array of no row included,
\* and one-row arrays of no, one and three columns
EdgeArrays(size) ==
    UNION {SeqsOf(Pairs(-1, size - n), n, n) : n \in 0..size}
        \cup {<<row>> : row \in SeqsOf(0..1, 0, 1) \cup SeqsOf(0..1, 3, 3)}

ConstructInit ==
    InitWith({[cls |-> cls, adjacency_array |-> a, root_vertex |-> None,
               points |-> <<>>] :
                 cls \in {"UndirectedGraph", "DirectedGraph"},
                 a \in EdgeArrays(ConstructSize)})

ConstructNext == Construct \/ NEdges \/ NVertices \/ ConstructAgain

SpecConstruct == ConstructInit /\ [][ConstructNext]_vars

GraphsInit ==
    InitWith(Inputs({"UndirectedGraph", "DirectedGraph"}, GraphSize, {}, {}))

GraphNext == Construct \/ HasCycles \/ IsTree

SpecGraph == GraphsInit /\ [][GraphNext]_vars

CyclesInit ==
    InitWith(Inputs({"UndirectedGraph", "DirectedGraph"}, CycleSize, {}, {}))

CyclesNext == Construct \/ HasCycles

SpecCycles == CyclesInit /\ [][CyclesNext]_vars

TreesInit == InitWith(Inputs({"Tree"}, TreeSize, (-1)..TreeSize, {}))

TreeNext ==
    \/ Construct
    \/ \E vertex \in VertexArgs : DepthOfVertex(vertex)
    \/ \E vertex \in VertexArgs : Parent(vertex)
    \/ \E vertex \in VertexArgs : IsLeaf(vertex)

SpecTree == TreesInit /\ [][TreeNext]_vars

QueriesInit ==
    InitWith(Inputs({"UndirectedGraph", "DirectedGraph", "Tree"},
                    QuerySize, (-1)..QuerySize, {}))

QueriesNext ==
    \/ Construct
    \/ \E vertex \in VertexArgs : Neighbours(vertex)
    \/ \E vertex \in VertexArgs : NNeighbours(vertex)
    \/ \E vertex \in VertexArgs : Children(vertex)
    \/ \E vertex \in VertexArgs : NChildren(vertex)
    \/ \E vertex \in VertexArgs : Parent(vertex)
    \/ \E vertex \in VertexArgs : NParent(vertex)
    \/ \E vertex_1 \in VertexArgs, vertex_2 \in VertexArgs :
          IsEdge(vertex_1, vertex_2)
    \/ \E vertex \in VertexArgs : IsLeaf(vertex)
    \/ \E vertex \in VertexArgs : DepthOfVertex(vertex)

SpecQueries == QueriesInit /\ [][QueriesNext]_vars

\* the instances at hand: the constructed one and the one that the last
\* from_mask returned
Instances ==
    IF pc \in {"constructed", "returned"} /\ IsPointClass(obj.cls)
    THEN {obj} \cup (IF ret.op = "from_mask" /\ ret.status = "ok"
                     THEN {ret.val} ELSE {})
    ELSE {}

\* the masks of as many entries as the instance has points, one fewer and
\* one more
Masks(self) ==
    UNION {[1..n -> BOOLEAN] : n \in (n_points(self) - 1)..(n_points(self) + 1)}

\* the receiver becomes obj, as the call leaves it
FromMask(self, mask) ==
    /\ pc \in {"constructed", "returned"}
    /\ LET out == from_mask(self, mask)
       IN /\ obj' = out.self
          /\ ret' = Call("from_mask", <<self, mask>>, out)
    /\ pc' = "returned"
    /\ UNCHANGED input

MaskInit ==
    InitWith(Inputs({"PointUndirectedGraph", "PointTree"}, MaskSize,
                    0..1, {0, 1}))

MaskNext ==
    \/ Construct
    \/ \E self \in Instances : \E mask \in Masks(self) : FromMask(self, mask)

SpecMask == MaskInit /\ [][MaskNext]_vars

PathsInit ==
    InitWith(Inputs({"UndirectedGraph", "DirectedGraph"},
                    PathSize, {}, {}))

PathsNext ==
    \/ Construct
    \/ \E start \in VertexArgs, end \in VertexArgs : FindPath(start, end)
    \/ \E start \in VertexArgs, end \in VertexArgs : FindAllPaths(start, end)
    \/ \E start \in VertexArgs, end \in VertexArgs : NPaths(start, end)
    \/ \E start \in VertexArgs, end \in VertexArgs : FindShortestPath(start, end)

SpecPaths == PathsInit /\ [][PathsNext]_vars

\* the undirected graph of six vertices of the specification's scenario
ScenarioEdges ==
    <<(<<0, 1>>), <<0, 2>>, <<1, 2>>, <<1, 3>>, <<2, 4>>, <<3, 4>>, <<3, 5>>>>

ScenarioInit ==
    InitWith({[cls |-> "UndirectedGraph", adjacency_array |-> ScenarioEdges,
               root_vertex |-> None, points |-> <<>>]})

SpecScenario == ScenarioInit /\ [][PathsNext]_vars

(***************************************************************************)
(* Reference definitions for the path claims, from the stored edge set     *)
(* alone: the edge relation and the set of simple paths.                   *)
(***************************************************************************)
Vertices(g) == 0..(n_vertices(g.adjacency_array) - 1)

HasEdge(g, a, b) ==
    \/ <<a, b>> \in Range(g.adjacency_array)
    \/ IsUndirected(g.cls) /\ <<b, a>> \in Range(g.adjacency_array)

\* the simple paths of n vertices that leave start
RECURSIVE SimplePathsOfLen(_, _, _)
SimplePathsOfLen(g, start, n) ==
    IF n = 1 THEN {<<start>>}
    ELSE {Append(x[1], x[2]) :
            x \in {y \in SimplePathsOfLen(g, start, n - 1) \X Vertices(g) :
                     /\ y[2] \notin Range(y[1])
                     /\ HasEdge(g, y[1][Len(y[1])], y[2])}}

SimplePaths(g, start, end) ==
    {p \in UNION {SimplePathsOfLen(g, start, n) :
                    n \in 1..n_vertices(g.adjacency_array)} :
        p[Len(p)] = end}

Returned(op) == pc = "returned" /\ ret.op = op

ValidArgs == \A i \in 1..Len(ret.args) : ret.args[i] \in Vertices(obj)

C5_AllPathsExactlyOnce ==
    /\ (Returned("find_all_paths") /\ ValidArgs) =>
          LET simple == SimplePaths(obj, ret.args[1], ret.args[2])
          IN /\ Range(ret.val) = simple
             /\ Len(ret.val) = Cardinality(simple)
    /\ (Returned("n_paths") /\ ValidArgs) =>
          ret.val = Cardinality(SimplePaths(obj, ret.args[1], ret.args[2]))

\* C6: find_path(start, end) on valid vertices returns None exactly when
\* end is unreachable, and otherwise a simple path that is the first entry
\* of find_all_paths(start, end).
C6_FirstPath ==
    (Returned("find_path") /\ ValidArgs) =>
        LET start == ret.args[1]
            end == ret.args[2]
            simple == SimplePaths(obj, start, end)
            all == find_all_paths(obj, start, end, <<>>)
        IN /\ ret.status = "ok"
           /\ (ret.val = None) <=> (simple = {})
           /\ simple # {} => /\ ret.val[1] \in simple
                             /\ ret.val[1] = all[1]

\* a first path that is found although a shorter one exists
C6_Witness ==
    /\ Returned("find_path") /\ ValidArgs
    /\ ret.val # None
    /\ \E p \in SimplePaths(obj, ret.args[1], ret.args[2]) :
          Len(p) < Len(ret.val[1])

\* C7 as stated: a search whose start or end is outside [0, V) is rejected
\* with a range error.
PathOps == {"find_path", "find_all_paths", "find_shortest_path"}

C7_RangeErrorAtEntry ==
    (pc = "returned" /\ ret.op \in PathOps /\ ~ValidArgs) =>
        ret.status = "ValueError"

\* C7 as the code has it: a search whose start or end is outside [0, V)
\* raises nothing; it returns the one-vertex path [start] when
\* start == end, and no path (None, or the empty list of find_all_paths)
\* otherwise.
C7_NoPathNoError ==
    (pc = "returned" /\ ret.op \in PathOps /\ ~ValidArgs) =>
        /\ ret.status = "ok"
        /\ ret.val =
              IF ret.op = "find_all_paths"
              THEN IF ret.args[1] = ret.args[2] THEN <<(<<ret.args[1]>>)>>
                   ELSE <<>>
              ELSE IF ret.args[1] = ret.args[2] THEN Some(<<ret.args[1]>>)
                   ELSE None

\* the search from a vertex beyond the last one to itself
C7_Witness ==
    /\ Returned("find_path")
    /\ ret.args[1] = n_vertices(obj.adjacency_array)
    /\ ret.args[2] = ret.args[1]
    /\ ret.val = Some(<<ret.args[1]>>)

(***************************************************************************)
(* Reference definitions for the tree claims, from the stored edge set     *)
(* alone.                                                                  *)
(***************************************************************************)
\* the rows that enter vertex v
Incoming(g, v) ==
    {e \in 1..Len(g.adjacency_array) : g.adjacency_array[e][2] = v}

\* the tree invariant: the root has no incoming edge and no predecessor,
\* every other vertex one incoming edge, from its predecessor
TreeInvariant(g) ==
    \A v \in Vertices(g) :
        IF Some(v) = g.root_vertex
        THEN /\ Incoming(g, v) = {}
             /\ g.predecessors_list[v + 1] = None
        ELSE /\ Cardinality(Incoming(g, v)) = 1
             /\ \A e \in Incoming(g, v) :
                   g.predecessors_list[v + 1] = Some(g.adjacency_array[e][1])

\* C1: every Tree that the constructor accepts satisfies the tree
\* invariant; an edge set and root that do not are rejected.
C1_AcceptedTreeInvariant ==
    (pc # "start" /\ input.cls = "Tree" /\ obj.cls = "Tree") => TreeInvariant(obj)

\* a and b are the two ends of a row, in either order
Joined(g, a, b) ==
    \E e \in 1..Len(g.adjacency_array) :
        {g.adjacency_array[e][1], g.adjacency_array[e][2]} = {a, b}

RECURSIVE Reach(_, _)
Reach(g, S) ==
    LET T == S \cup {v \in Vertices(g) : \E u \in S : Joined(g, u, v)}
    IN IF T = S THEN S ELSE Reach(g, T)

Connected(g) == Reach(g, {0}) = Vertices(g)

\* a cycle of the rows, their direction ignored: a self-loop, two rows on
\* one pair of vertices, or a closed simple path of three or more vertices
HasCycleBrute(g) ==
    LET rows == g.adjacency_array
        u == [g EXCEPT !.cls = "UndirectedGraph"]
    IN \/ \E e \in 1..Len(rows) : rows[e][1] = rows[e][2]
       \/ \E e, f \in 1..Len(rows) :
             e # f /\ {rows[e][1], rows[e][2]} = {rows[f][1], rows[f][2]}
       \/ \E a, b \in Vertices(g) :
             /\ Joined(g, a, b)
             /\ \E p \in SimplePaths(u, a, b) : Len(p) >= 3

\* C2: is_tree() is true exactly when the graph over the vertices 0..V-1
\* is connected and has no cycle.
C2_IsTreeIffSingleTree ==
    Returned("is_tree") => (ret.val <=> (Connected(obj) /\ ~HasCycleBrute(obj)))

\* C3: in an accepted Tree, depth_of_vertex(root) is 0 and the depth of
\* every other vertex is one more than the depth of its parent.
C3_DepthRoundTrip ==
    (Returned("depth_of_vertex") /\ ValidArgs) =>
        LET v == ret.args[1]
            up == parent(obj, v)
        IN /\ ret.status = "ok"
           /\ IF Some(v) = obj.root_vertex THEN ret.val = 0
              ELSE /\ up.status = "ok" /\ up.val # None
                   /\ depth_of_vertex(obj, up.val[1]).status = "ok"
                   /\ ret.val = depth_of_vertex(obj, up.val[1]).val + 1

\* C8: a per-vertex query with a vertex outside [0, V) raises the range
\* error (ValueError) before it has made any lookup; with its vertices
\* inside [0, V) it raises no range error.
PerVertexOps ==
    {"neighbours", "n_neighbours", "children", "n_children", "parent",
     "n_parent", "is_edge", "is_leaf", "depth_of_vertex"}

C8_RangeCheckedFirst ==
    (pc = "returned" /\ ret.op \in PerVertexOps) =>
        IF ValidArgs THEN ret.status # "ValueError"
        ELSE ret.status = "ValueError" /\ ret.lookups = Some(0)

\* neighbours(-1): the list index -1 would have given the last list
C8_Witness ==
    /\ Returned("neighbours")
    /\ ret.args = <<-1>>
    /\ ListGet(obj.adjacency_list, -1).status = "ok"
    /\ ret.status = "ValueError" /\ ret.lookups = Some(0)

(***************************************************************************)
(* Reference definitions for the mask claims, from the stored edge set     *)
(* and predecessor list alone.                                             *)
(***************************************************************************)
LoopFree(adjacency_array) ==
    \A e \in 1..Len(adjacency_array) :
        adjacency_array[e][1] # adjacency_array[e][2]

\* C9: every point-graph reached by construction and from_mask has as many
\* points as vertices, also after a mask that keeps a vertex none of whose
\* edges survives.  (Stated for inputs without self-loops, so that no
\* violation rests on one.)
C9_PointsEqualVertices ==
    LoopFree(input.adjacency_array) =>
        \A g \in Instances : n_points(g) = n_vertices(g.adjacency_array)

\* the vertices above v on the predecessor list
RECURSIVE Above(_, _)
Above(g, S) ==
    LET T == S \cup {u \in 0..(Len(g.predecessors_list) - 1) :
                        \E w \in S :
                            /\ 0 <= w /\ w < Len(g.predecessors_list)
                            /\ g.predecessors_list[w + 1] = Some(u)}
    IN IF T = S THEN S ELSE Above(g, T)

\* no edge survives the mask: a graph has no row with both ends kept; a
\* tree has no row into a kept child with a kept vertex at or above the
\* row's parent
NoEdgeSurvives(g, mask) ==
    \A e \in 1..Len(g.adjacency_array) :
        LET a == g.adjacency_array[e][1]
            b == g.adjacency_array[e][2]
        IN IF IsTreeClass(g.cls)
           THEN ~(Kept(mask, b) /\ \E u \in Above(g, {a}) : Kept(mask, u))
           ELSE ~(Kept(mask, a) /\ Kept(mask, b))

C11_AllTrueMaskIdentity ==
    Returned("from_mask") =>
        LET self == ret.args[1]
            mask == ret.args[2]
        IN (Len(mask) = n_points(self) /\ AllTrue(mask)) =>
              /\ ret.status = "ok"
              /\ ret.val = self
              /\ obj = self

\* an all-true mask on an instance whose vertex numbering has a gap, which
\* the renumbering of the other masks would close
C11_Witness ==
    /\ Returned("from_mask")
    /\ Len(ret.args[2]) = n_points(ret.args[1]) /\ AllTrue(ret.args[2])
    /\ reindex_adjacency_array(ret.args[1].adjacency_array)
          # ret.args[1].adjacency_array
    /\ ret.status = "ok" /\ ret.val = ret.args[1] /\ obj = ret.args[1]

\* no cycle among the rows, their direction ignored: no self-loop, no two
\* rows on one pair of vertices, and as many rows as vertices less
\* components
NoCycle(g) ==
    /\ Cardinality(Connections(g)) = Len(g.adjacency_array)
    /\ Len(g.adjacency_array) =
          n_vertices(g.adjacency_array)
              - Cardinality(Components(g, Connections(g)))

\* the tree t is a spanning tree of g rooted at root: V - 1 edges for the V
\* vertices of g, no cycle, every edge oriented away from the root (the
\* tree invariant) and joining two vertices that an edge of g joins
SpanningTreeOf(t, g, root) ==
    /\ n_edges(t.adjacency_array) = n_vertices(g.adjacency_array) - 1
    /\ n_vertices(t.adjacency_array) = n_vertices(g.adjacency_array)
    /\ NoCycle(t)
    /\ t.root_vertex = Some(root)
    /\ TreeInvariant(t)
    /\ \A e \in 1..Len(t.adjacency_array) :
          Joined(g, t.adjacency_array[e][1], t.adjacency_array[e][2])

\* C12 as stated: for every undirected graph and every root in [0, V),
\* minimum_spanning_tree returns a Tree that is a spanning tree of the graph
\* rooted at the requested root.
C12_MstOfEveryGraph ==
    (Returned("minimum_spanning_tree") /\ ret.args[2] \in Vertices(obj)) =>
        /\ ret.status = "ok"
        /\ SpanningTreeOf(ret.val, obj, ret.args[2])

\* C12 for connected graphs: for every connected undirected graph of two
\* or more vertices and every root in [0, V), minimum_spanning_tree returns
\* a Tree that is a spanning tree of the graph rooted at the requested root.
C12_MstOfConnectedGraph ==
    (/\ Returned("minimum_spanning_tree")
     /\ ret.args[2] \in Vertices(obj)
     /\ Connected(obj)
     /\ n_vertices(obj.adjacency_array) >= 2) =>
        /\ ret.status = "ok"
        /\ SpanningTreeOf(ret.val, obj, ret.args[2])

\* a spanning tree of two levels below the root, none of whose edges is
\* oriented as the solver gave it
C12_Witness ==
    /\ Returned("minimum_spanning_tree")
    /\ ret.args[2] \in Vertices(obj) /\ Connected(obj)
    /\ ret.status = "ok"
    /\ SpanningTreeOf(ret.val, obj, ret.args[2])
    /\ Range(ret.val.adjacency_array) \cap Range(ret.args[1]) = {}
    /\ \E v \in Vertices(ret.val) : depth_of_vertex(ret.val, v).val = 2

(***************************************************************************)
(* Construction claims, against the constructor's argument alone.          *)
(***************************************************************************)
TwoColumns(array) == \A e \in 1..Len(array) : Len(array[e]) = 2

\* C13: the constructor of UndirectedGraph and DirectedGraph raises
\* ValueError and makes no object for an empty edge array and for one whose
\* least vertex index is not 0, negative indices included; it accepts every
\* non-empty array of two columns whose least index is 0.
C13_ConstructorValidation ==
    pc # "start" =>
        LET array == input.adjacency_array
        IN IF Len(array) > 0 /\ TwoColumns(array)
              /\ 0 \in Entries(array) /\ \A x \in Entries(array) : x >= 0
           THEN pc # "raised" /\ obj # NoObject /\ obj.cls = input.cls
           ELSE /\ pc = "raised" /\ obj = NoObject
                /\ ret.op = "__init__" /\ ret.status = "ValueError"

\* an array with the vertex 0 and a negative index is rejected
C13_Witness ==
    /\ pc = "raised" /\ obj = NoObject /\ ret.status = "ValueError"
    /\ Len(input.adjacency_array) > 1 /\ TwoColumns(input.adjacency_array)
    /\ {0, -1} \subseteq Entries(input.adjacency_array)

\* the index of the first occurrence of row in array
FirstAt(array, row) ==
    CHOOSE i \in 1..Len(array) :
        array[i] = row /\ \A j \in 1..(i - 1) : array[j] # row

Accepted == pc \in {"constructed", "returned"}

\* C14: the stored edge array of a constructed graph holds every distinct
\* row of the input once, in the order of the rows' first occurrences in
\* the input; n_edges is the number of distinct input rows; the constructor
\* called on a stored edge array stores the same array.
C14_UniqueRowsFirstSeen ==
    Accepted =>
        LET given == input.adjacency_array
            stored == obj.adjacency_array
        IN /\ Range(stored) = Range(given)
           /\ Cardinality(Range(stored)) = Len(stored)
           /\ \A i, j \in 1..Len(stored) :
                 i < j => FirstAt(given, stored[i]) < FirstAt(given, stored[j])
           /\ n_edges(stored) = Cardinality(Range(given))
           /\ Returned("n_edges") => ret.val = Cardinality(Range(given))
           /\ Returned("__init__") =>
                 /\ ret.status = "ok"
                 /\ ret.val.adjacency_array = stored

\* an input whose first row comes again after a second one, built again
\* from the two rows stored
C14_Witness ==
    /\ Returned("__init__") /\ ret.status = "ok"
    /\ Len(input.adjacency_array) = 3
    /\ input.adjacency_array[1] = input.adjacency_array[3]
    /\ input.adjacency_array[1] # input.adjacency_array[2]
    /\ obj.adjacency_array =
          <<input.adjacency_array[1], input.adjacency_array[2]>>
    /\ ret.val.adjacency_array = obj.adjacency_array

\* C15: for every edge array that the constructor accepts, n_vertices is
\* the greatest vertex index of the array plus 1, and is at least 2.
C15_VerticesMaxPlusOne ==
    Accepted =>
        /\ n_vertices(obj.adjacency_array) = ArrayMax(input.adjacency_array) + 1
        /\ n_vertices(obj.adjacency_array) >= 2
        /\ Returned("n_vertices") =>
              ret.val = ArrayMax(input.adjacency_array) + 1 /\ ret.val >= 2

\* C16: in a constructed undirected graph, for every stored edge (a, b) the
\* vertex b is in the adjacency list of a and a in the adjacency list of b,
\* every entry of an adjacency list comes from a stored edge, and
\* is_edge(a, b) == is_edge(b, a) for all valid vertices a and b.
C16_UndirectedSymmetry ==
    (Accepted /\ IsUndirected(obj.cls)) =>
        /\ Len(obj.adjacency_list) = n_vertices(obj.adjacency_array)
        /\ \A e \in 1..Len(obj.adjacency_array) :
              LET a == obj.adjacency_array[e][1]
                  b == obj.adjacency_array[e][2]
              IN /\ b \in Range(obj.adjacency_list[a + 1])
                 /\ a \in Range(obj.adjacency_list[b + 1])
        /\ \A a \in Vertices(obj) :
              \A b \in Range(obj.adjacency_list[a + 1]) : Joined(obj, a, b)
        /\ (Returned("is_edge") /\ ValidArgs) =>
              /\ ret.status = "ok"
              /\ is_edge(obj, ret.args[2], ret.args[1]).status = "ok"
              /\ ret.val = is_edge(obj, ret.args[2], ret.args[1]).val
              /\ ret.val <=> Joined(obj, ret.args[1], ret.args[2])

\* is_edge(b, a) is true for a stored edge (a, b) whose reverse (b, a) is
\* not stored
C16_Witness ==
    /\ Returned("is_edge") /\ ValidArgs /\ IsUndirected(obj.cls)
    /\ ret.val = TRUE
    /\ ret.args[1] # ret.args[2]
    /\ <<ret.args[2], ret.args[1]>> \in Range(obj.adjacency_array)
    /\ <<ret.args[1], ret.args[2]>> \notin Range(obj.adjacency_array)

\* C17 as stated: on the scenario graph n_paths(0, 4) is 2.
C17_NPathsIsTwo ==
    (Returned("n_paths") /\ input.adjacency_array = ScenarioEdges
     /\ ret.args = <<0, 4>>) => ret.val = 2

\* C17 as the code has it: on the scenario graph n_paths(0, 4) is 4, the
\* number of simple paths from 0 to 4, which find_all_paths(0, 4) returns
\* as [0,1,2,4], [0,1,3,4], [0,2,1,3,4], [0,2,4].
C17_NPathsIsFour ==
    /\ (Returned("n_paths") /\ input.adjacency_array = ScenarioEdges
        /\ ret.args = <<0, 4>>) => ret.val = 4
    /\ (Returned("find_all_paths") /\ input.adjacency_array = ScenarioEdges
        /\ ret.args = <<0, 4>>) =>
           ret.val = <<(<<0, 1, 2, 4>>), <<0, 1, 3, 4>>, <<0, 2, 1, 3, 4>>,
                       <<0, 2, 4>>>>

\* n_paths(0, 4) on the scenario graph, whose simple paths from 0 to 4 are
\* four
C17_Witness ==
    /\ Returned("n_paths") /\ obj.adjacency_array = ScenarioEdges
    /\ ret.args = <<0, 4>>
    /\ SimplePaths(obj, 0, 4) =
          {<<0, 1, 2, 4>>, <<0, 1, 3, 4>>, <<0, 2, 1, 3, 4>>, <<0, 2, 4>>}
    /\ ret.val = 4

(***************************************************************************)
(* Reference definitions of a cycle, from the stored edge set alone.       *)
(***************************************************************************)
\* a directed cycle: a row (a, b) and a directed path from b back to a; a
\* self-loop is one
DirectedCycle(g) ==
    \E e \in 1..Len(g.adjacency_array) :
        SimplePaths([g EXCEPT !.cls = "DirectedGraph"],
                    g.adjacency_array[e][2], g.adjacency_array[e][1]) # {}

\* every unordered pair is listed at most once and there is no self-loop
SimpleEdgeSet(g) ==
    /\ LoopFree(g.adjacency_array)
    /\ Cardinality(Connections(g)) = Len(g.adjacency_array)

\* a cycle of three or more distinct vertices: two joined vertices with a
\* simple path of three or more vertices between them
UndirectedCycle(g) ==
    \E a, b \in Vertices(g) :
        /\ Joined(g, a, b)
        /\ \E p \in SimplePaths([g EXCEPT !.cls = "UndirectedGraph"], a, b) :
              Len(p) >= 3

\* C18: has_cycles() is true exactly when the graph has a cycle in some
\* component: for a directed graph a directed cycle; for an undirected
\* graph whose edge set lists every unordered pair at most once and has no
\* self-loop, a cycle of three or more distinct vertices.
C18_HasCyclesIffCycle ==
    Returned("has_cycles") =>
        IF IsUndirected(obj.cls)
        THEN SimpleEdgeSet(obj) => (ret.val <=> UndirectedCycle(obj))
        ELSE ret.val <=> DirectedCycle(obj)

\* a directed cycle that the search from vertex 0 does not come to
C18_Witness ==
    /\ Returned("has_cycles") /\ ~IsUndirected(obj.cls)
    /\ ret.val = TRUE
    /\ DOMAIN (dfs(obj.adjacency_list, TRUE, 0, DfsStart).back_edges) = {}

\* the number of kept vertices below v: the index of v after the mask
Renumbered(mask, v) == Cardinality({u \in 0..(v - 1) : Kept(mask, u)})

\* C19: for a PointTree (one that satisfies the tree invariant) and a mask
\* of the right length that keeps the root and leaves an edge, the returned
\* instance is a tree over the k kept vertices renumbered 0..k-1: k points,
\* k - 1 edges, no cycle, root_vertex the renumbered index of the root, the
\* tree invariant, and the adjacency list and predecessor list derived
\* from the new edge array.
C19_MaskedTreeIsTree ==
    Returned("from_mask") =>
        LET self == ret.args[1]
            mask == ret.args[2]
            t == ret.val
            k == Cardinality({v \in 0..(Len(mask) - 1) : Kept(mask, v)})
        IN (/\ self.cls = "PointTree"
            /\ TreeInvariant(self)
            /\ Len(mask) = n_points(self)
            /\ Kept(mask, self.root_vertex[1])
            /\ ~NoEdgeSurvives(self, mask)) =>
              /\ ret.status = "ok"
              /\ n_points(t) = k
              /\ n_vertices(t.adjacency_array) = k
              /\ n_edges(t.adjacency_array) = k - 1
              /\ NoCycle(t)
              /\ t.root_vertex = Some(Renumbered(mask, self.root_vertex[1]))
              /\ t.root_vertex[1] \in 0..(k - 1)
              /\ TreeInvariant(t)
              /\ t.adjacency_list = _get_adjacency_list(t.cls, t.adjacency_array)
              /\ t.predecessors_list = _get_predecessors_list(t.adjacency_array)

\* C20: on every accepted Tree and for every vertex v in [0, V), the walk
\* of depth_of_vertex(v) over the predecessor list ends at the root after
\* at most V - 1 steps; it does not come to a vertex without predecessor
\* that is not the root (TypeError) and does not go on for ever (NoReturn).
C20_WalkReachesRoot ==
    (Returned("depth_of_vertex") /\ ValidArgs) =>
        /\ ret.status = "ok"
        /\ ret.val <= n_vertices(obj.adjacency_array) - 1
        /\ ret.lookups = Some(ret.val)

\* the unordered pairs that the rows of array list
UnorderedPairs(array) == {{array[e][1], array[e][2]} : e \in 1..Len(array)}

\* no vertex comes twice in list
NoRepeat(list) == Cardinality(Range(list)) = Len(list)

\* C21: a constructed undirected graph is no multigraph: when the input
\* lists a connection more than once, as (a, b) twice or as (a, b) and
\* (b, a), the graph holds one edge for the pair, so that n_edges is the
\* number of distinct unordered pairs of the input and no vertex comes twice
\* in an adjacency list.  (Stated for inputs without self-loops, so that no
\* violation rests on one.)
C21_NoMultigraph ==
    (Accepted /\ IsUndirected(obj.cls) /\ LoopFree(input.adjacency_array)) =>
        LET pairs == UnorderedPairs(input.adjacency_array)
        IN /\ n_edges(obj.adjacency_array) = Cardinality(pairs)
           /\ UnorderedPairs(obj.adjacency_array) = pairs
           /\ \A v \in 1..Len(obj.adjacency_list) :
                 NoRepeat(obj.adjacency_list[v])
           /\ Returned("n_edges") => ret.val = Cardinality(pairs)
====
